---- MODULE Spec2Model ----
(***************************************************************************)
(* MPFProcess.run: the supervision loop of a worker process.               *)
(*                                                                         *)
(* The worker polls its task checker, dispatches update/step/publish,      *)
(* optionally sleeps, and on the stop header or on any exception falls     *)
(* into the finally block that releases the task checker, the results      *)
(* publisher and calls the worker's cleanup().  The parent process is      *)
(* modelled by the Send action that puts messages on the input queue.      *)
(*                                                                         *)
(* Every call the loop makes (the constructors, the five hooks, the        *)
(* reader's check_for_update/cleanup, time.sleep) either returns or        *)
(* raises; both outcomes are explored.                                     *)
(***************************************************************************)
EXTENDS Integers, Sequences, FiniteSets, TLC

\* ---------------------------------------------------------------- bounds
\* Number of messages the parent sends in one run.
MaxMsgs == 3
\* Number of times the loop polls the task checker in one run.
MaxIter == 3

\* ------------------------------------------------------------- constants
\* Python's None (the initial header/payload, the absent wait period, a
\* reference that was never assigned).
None == "None"
\* The reserved header of line 58.
STOP_PROCESS == "STOP PROCESS"

\* The (header, payload) pairs the parent may send.
Msgs == {<<"A", "1">>, <<"B", "2">>, <<STOP_PROCESS, None>>}
\* Values of the loop_wait_period constructor argument (0 is not None).
Periods == {None, "0"}

\* The calls of run() that are counted.
CallNames == {"init", "poll", "update", "step", "publish", "sleep",
              "tc_cleanup", "cleanup", "critical"}
\* The five lifecycle hooks of the worker.
Hooks == {"init", "update", "step", "publish", "cleanup"}
\* Program positions inside the while loop of lines 51-73.
LoopPcs == {"poll", "update", "step", "publish", "sleep"}
\* Program positions inside the finally block of lines 82-97.
FinallyPcs == {"fin_tc", "fin_tc_del", "fin_rp", "fin_cleanup"}
\* run() is over: it returned at line 97, or an exception left it.
EndPcs == {"done", "raised"}

VARIABLES
  pc,                \* position of run()
  task_checker,      \* self.task_checker: None, "live" or "deleted"
  results_publisher, \* self.results_publisher: None, "live" or "deleted"
  MPFLog,            \* self._MPFLog is set (TRUE) or still None (FALSE)
  loop_wait_period,  \* self._loop_wait_period
  missing,           \* the hooks the worker class left unimplemented
  inp,               \* messages on the input queue, oldest first
  header,            \* task_checker.header
  latest_data,       \* task_checker.latest_data
  latest_id,         \* history: arrival number of the message exposed
  sent,              \* history: every message the parent has sent
  updates,           \* history: the arguments of every update() call
  calls,             \* history: number of invocations of each call
  failed,            \* history: the call that raised inside the try block
  teardown_failed,   \* history: what raised inside the finally block
  stop_seen,         \* history: a poll exposed the stop header
  drained,           \* history: messages the last poll took off the queue
  exit_calls         \* history: calls when control left the try body

vars == <<pc, task_checker, results_publisher, MPFLog, loop_wait_period,
          missing, inp, header, latest_data, latest_id, sent, updates, calls,
          failed, teardown_failed, stop_seen, drained, exit_calls>>

\* Variables of the reader and the channel.
chan == <<inp, header, latest_data, latest_id, sent, drained>>
\* How the worker was written and constructed.
conf == <<loop_wait_period, missing>>
\* Variables of the IPC objects.
objs == <<task_checker, results_publisher, MPFLog>>

Count(c) == [calls EXCEPT ![c] = @ + 1]

\* ------------------------------------------------------------------ Init
Init ==
  /\ pc = "start"
  /\ task_checker = None
  /\ results_publisher = None
  /\ MPFLog = FALSE
  /\ loop_wait_period \in Periods
  /\ missing \in SUBSET Hooks
  /\ inp = <<>>
  /\ header = None
  /\ latest_data = None
  /\ latest_id = 0
  /\ sent = <<>>
  /\ updates = <<>>
  /\ calls = [c \in CallNames |-> 0]
  /\ failed = None
  /\ teardown_failed = None
  /\ stop_seen = FALSE
  /\ drained = 0
  /\ exit_calls = calls

\* ------------------------------------------------------- the parent side
\* The parent puts (h, d) on the command channel.
Send ==
  /\ Len(sent) < MaxMsgs
  /\ \E hd \in Msgs :
       LET m == [id |-> Len(sent) + 1, header |-> hd[1], data |-> hd[2]]
       IN /\ sent' = Append(sent, m)
          /\ inp' = Append(inp, m)
  /\ UNCHANGED <<pc, objs, conf, header, latest_data, latest_id,
                 drained, updates, calls, failed, teardown_failed, stop_seen,
                 exit_calls>>

\* ------------------------------------------------------ the task checker
\* check_for_update(): TRUE iff a message is waiting.
check_for_update(q) == q # <<>>
\* The message check_for_update() exposes: the newest one waiting.
Latest(q) == q[Len(q)]

\* ------------------------------------------------------------ the hooks
\* Mutant of MayReturn: the base class hooks do nothing instead of raising.
MayReturnAlways(h) == TRUE

\* Lines 102-115: a hook left at the base implementation raises
\* NotImplementedError; an implemented one may return (or raise).
MayReturn(h) == h \notin missing

\* --------------------------------------------------------------- run()
\* Mutant of Construct: line 48 is missing, the loop starts without init().
ConstructSkipsInit ==
  /\ pc = "start"
  /\ task_checker' = "live"
  /\ results_publisher' = "live"
  /\ MPFLog' = TRUE
  /\ pc' = "poll"
  /\ UNCHANGED <<conf, chan, updates, calls, failed, teardown_failed,
                 stop_seen, exit_calls>>

\* Lines 35-45: the imports, the two IPC objects, the logger.
Construct ==
  /\ pc = "start"
  /\ \/ /\ task_checker' = "live"
        /\ results_publisher' = "live"
        /\ MPFLog' = TRUE
        /\ pc' = "init"
        /\ UNCHANGED failed
     \/ \* MPFTaskChecker(...) or an import raises
        /\ failed' = "ctor_tc"
        /\ pc' = "except"
        /\ UNCHANGED objs
     \/ \* MPFResultPublisher(...) raises
        /\ task_checker' = "live"
        /\ failed' = "ctor_rp"
        /\ pc' = "except"
        /\ UNCHANGED <<results_publisher, MPFLog>>
  /\ UNCHANGED <<conf, chan, updates, calls, teardown_failed,
                 stop_seen, exit_calls>>

\* Lines 47-49: self.init().
InitHook ==
  /\ pc = "init"
  /\ calls' = Count("init")
  /\ \/ MayReturn("init") /\ pc' = "poll" /\ UNCHANGED failed
     \/ pc' = "except" /\ failed' = "init"
  /\ UNCHANGED <<objs, conf, chan, updates, teardown_failed,
                 stop_seen, exit_calls>>

\* Mutant of AfterPoll: the loop also ends when no message is waiting.
AfterPollExitOnIdle(got, h) ==
  IF got /\ h # STOP_PROCESS THEN "update" ELSE "fin_tc"

\* Mutant of AfterPoll: the test of line 58 is missing.
AfterPollNoStop(got, h) == IF got THEN "update" ELSE "step"

\* Mutant of AfterPoll: line 63 is missing, a polled message is not dispatched.
AfterPollSkipUpdate(got, h) ==
  IF got /\ h = STOP_PROCESS THEN "fin_tc" ELSE "step"

\* Where line 55-63 goes after check_for_update() returned got, header h.
AfterPoll(got, h) ==
  IF got THEN (IF h = STOP_PROCESS THEN "fin_tc" ELSE "update") ELSE "step"

\* Lines 55-60: poll the task checker, break on the stop header.
Poll ==
  /\ pc = "poll"
  /\ calls["poll"] < MaxIter
  /\ calls' = Count("poll")
  /\ \/ \* check_for_update() raises
        /\ pc' = "except"
        /\ failed' = "poll"
        /\ UNCHANGED <<chan, stop_seen, exit_calls>>
     \/ /\ check_for_update(inp)
        /\ inp' = <<>>
        /\ drained' = Len(inp)
        /\ header' = Latest(inp).header
        /\ latest_data' = Latest(inp).data
        /\ latest_id' = Latest(inp).id
        /\ stop_seen' = (header' = STOP_PROCESS)
        /\ pc' = AfterPoll(TRUE, header')
        /\ exit_calls' = IF pc' \in LoopPcs THEN exit_calls ELSE calls'
        /\ UNCHANGED <<sent, failed>>
     \/ /\ ~check_for_update(inp)
        /\ drained' = 0
        /\ pc' = AfterPoll(FALSE, header)
        /\ UNCHANGED <<inp, header, latest_data, latest_id, sent, failed,
                       stop_seen, exit_calls>>
  /\ UNCHANGED <<objs, conf, updates, teardown_failed>>

\* Mutant of UpdateArgs: line 63 passes the header in place of the payload.
UpdateArgsHeaderTwice ==
  [id |-> latest_id, header |-> header, data |-> header]

\* The arguments line 63 passes to update().
UpdateArgs == [id |-> latest_id, header |-> header, data |-> latest_data]

\* Mutant of Update: step() sits in the else branch of line 55 and is
\* skipped in an iteration that dispatched a message.
UpdateSkipsStep ==
  /\ pc = "update"
  /\ calls' = Count("update")
  /\ updates' = Append(updates, UpdateArgs)
  /\ \/ MayReturn("update") /\ pc' = "publish" /\ UNCHANGED failed
     \/ pc' = "except" /\ failed' = "update"
  /\ UNCHANGED <<objs, conf, chan, teardown_failed, stop_seen,
                 exit_calls>>

\* Line 63: self.update(header, latest_data).
Update ==
  /\ pc = "update"
  /\ calls' = Count("update")
  /\ updates' = Append(updates, UpdateArgs)
  /\ \/ MayReturn("update") /\ pc' = "step" /\ UNCHANGED failed
     \/ pc' = "except" /\ failed' = "update"
  /\ UNCHANGED <<objs, conf, chan, teardown_failed, stop_seen,
                 exit_calls>>

\* Mutant of Step: line 69 is missing, the iteration ends after step().
StepSkipsPublish ==
  /\ pc = "step"
  /\ calls' = Count("step")
  /\ \/ /\ MayReturn("step")
        /\ pc' = IF loop_wait_period # None THEN "sleep" ELSE "poll"
        /\ UNCHANGED failed
     \/ pc' = "except" /\ failed' = "step"
  /\ UNCHANGED <<objs, conf, chan, updates, teardown_failed,
                 stop_seen, exit_calls>>

\* Line 66: self.step().
Step ==
  /\ pc = "step"
  /\ calls' = Count("step")
  /\ \/ MayReturn("step") /\ pc' = "publish" /\ UNCHANGED failed
     \/ pc' = "except" /\ failed' = "step"
  /\ UNCHANGED <<objs, conf, chan, updates, teardown_failed,
                 stop_seen, exit_calls>>

\* Mutant of AfterPublish: line 72 tests the period for truth, so a
\* period of 0 counts as absent.
AfterPublishTruthy(p) == IF p # None /\ p # "0" THEN "sleep" ELSE "poll"

\* Line 72: is a sleep requested?
AfterPublish(p) == IF p # None THEN "sleep" ELSE "poll"

\* Lines 69-72: self.publish().
Publish ==
  /\ pc = "publish"
  /\ calls' = Count("publish")
  /\ \/ /\ MayReturn("publish")
        /\ pc' = AfterPublish(loop_wait_period)
        /\ UNCHANGED failed
     \/ pc' = "except" /\ failed' = "publish"
  /\ UNCHANGED <<objs, conf, chan, updates, teardown_failed,
                 stop_seen, exit_calls>>

\* Line 73: time.sleep(self._loop_wait_period).
Sleep ==
  /\ pc = "sleep"
  /\ calls' = Count("sleep")
  /\ \/ pc' = "poll" /\ UNCHANGED failed
     \/ pc' = "except" /\ failed' = "sleep"
  /\ UNCHANGED <<objs, conf, chan, updates, teardown_failed,
                 stop_seen, exit_calls>>

\* Mutant of Except: lines 77-80 are missing, the handler swallows the
\* exception without logging it.
ExceptSilent ==
  /\ pc = "except"
  /\ exit_calls' = calls
  /\ pc' = "fin_tc"
  /\ UNCHANGED <<objs, conf, chan, updates, calls, failed,
                 teardown_failed, stop_seen>>

\* Lines 75-80: the catch-all handler logs the crash.  With the logger
\* still None the handler itself raises; the finally block runs either way.
Except ==
  /\ pc = "except"
  /\ calls' = IF MPFLog THEN Count("critical") ELSE calls
  /\ exit_calls' = calls
  /\ pc' = "fin_tc"
  /\ UNCHANGED <<objs, conf, chan, updates, failed,
                 teardown_failed, stop_seen>>

\* Mutant of TaskCheckerCleanup: line 86 is missing, the task checker is
\* deleted without its cleanup() being called.
TaskCheckerNotCleaned ==
  /\ pc = "fin_tc"
  /\ pc' = IF task_checker = None THEN "fin_rp" ELSE "fin_tc_del"
  /\ UNCHANGED <<objs, conf, chan, updates, calls, failed,
                 teardown_failed, stop_seen, exit_calls>>

\* Lines 84-86: clean the task checker if it was constructed.
TaskCheckerCleanup ==
  /\ pc = "fin_tc"
  /\ IF task_checker = None
       THEN /\ pc' = "fin_rp"
            /\ UNCHANGED <<calls, teardown_failed>>
       ELSE IF ~MPFLog
         THEN \* line 85: None has no attribute debug
              /\ pc' = "raised"
              /\ teardown_failed' = "log"
              /\ UNCHANGED calls
         ELSE /\ calls' = Count("tc_cleanup")
              /\ \/ pc' = "fin_tc_del" /\ UNCHANGED teardown_failed
                 \/ pc' = "raised" /\ teardown_failed' = "tc_cleanup"
  /\ UNCHANGED <<objs, conf, chan, updates, failed, stop_seen,
                 exit_calls>>

\* Lines 87-88: del self.task_checker.
DelTaskChecker ==
  /\ pc = "fin_tc_del"
  /\ task_checker' = "deleted"
  /\ pc' = "fin_rp"
  /\ UNCHANGED <<results_publisher, MPFLog, conf, chan, updates,
                 calls, failed, teardown_failed, stop_seen, exit_calls>>

\* Lines 90-91: del self.results_publisher if it was constructed.
DelResultsPublisher ==
  /\ pc = "fin_rp"
  /\ results_publisher' =
       IF results_publisher # None THEN "deleted" ELSE results_publisher
  /\ pc' = "fin_cleanup"
  /\ UNCHANGED <<task_checker, MPFLog, conf, chan, updates,
                 calls, failed, teardown_failed, stop_seen, exit_calls>>

\* Mutant of Cleanup: the finally block sits inside the try, so a failure
\* of cleanup() is caught, logged as a crash and run() returns.
CleanupGuarded ==
  /\ pc = "fin_cleanup"
  /\ MPFLog
  /\ \/ /\ MayReturn("cleanup")
        /\ calls' = Count("cleanup")
        /\ UNCHANGED teardown_failed
     \/ /\ calls' = [calls EXCEPT !["cleanup"] = @ + 1, !["critical"] = @ + 1]
        /\ teardown_failed' = "cleanup"
  /\ pc' = "done"
  /\ UNCHANGED <<objs, conf, chan, updates, failed, stop_seen, exit_calls>>

\* Lines 93-97: self.cleanup(), then return.
Cleanup ==
  /\ pc = "fin_cleanup"
  /\ IF ~MPFLog
       THEN \* line 93: None has no attribute debug
            /\ pc' = "raised"
            /\ teardown_failed' = "log"
            /\ UNCHANGED calls
       ELSE /\ calls' = Count("cleanup")
            /\ \/ MayReturn("cleanup") /\ pc' = "done"
                  /\ UNCHANGED teardown_failed
               \/ pc' = "raised" /\ teardown_failed' = "cleanup"
  /\ UNCHANGED <<objs, conf, chan, updates, failed, stop_seen,
                 exit_calls>>

\* One step of the worker process.
Run ==
  \/ Construct
  \/ InitHook
  \/ Poll
  \/ Update
  \/ Step
  \/ Publish
  \/ Sleep
  \/ Except
  \/ TaskCheckerCleanup
  \/ DelTaskChecker
  \/ DelResultsPublisher
  \/ Cleanup

Next == Send \/ Run

Spec == Init /\ [][Next]_vars

\* The worker process keeps running while it has a next statement.
FairSpec == Spec /\ WF_vars(Run)

\* ------------------------------------------------------------ vocabulary
\* The calls made from inside the while loop.
LoopCalls == {"poll", "update", "step", "publish", "sleep"}
\* init() returned and the while loop was entered.
LoopEntered == calls["init"] = 1 /\ failed # "init"
\* A call of the loop body raised.
LoopCrashed == failed \in LoopCalls
\* Control has left the try body (break or exception).
Exited == pc \in FinallyPcs \cup EndPcs
\* No call of the loop has been made since control left the try body.
NoLoopCallSinceExit == \A c \in LoopCalls : calls[c] = exit_calls[c]
\* Number of messages the polls have taken off the queue so far.
Consumed == Len(sent) - Len(inp)
\* The parent has sent the stop header.
SentinelSent == \E i \in 1..Len(sent) : sent[i].header = STOP_PROCESS
\* Arrival number of the message of the last update() call (0: none yet).
LastUpdateId == IF updates = <<>> THEN 0 ELSE updates[Len(updates)].id
\* Positions of the loop at which no exposed message awaits its update().
AfterUpdatePcs == {"step", "publish", "sleep", "poll"}
\* A lifecycle hook raised.
HookRaised == failed \in Hooks \/ teardown_failed = "cleanup"

\* ---------------------------------------------------------------- claims
\* C1 (as claimed): in every run in which init() returned and the loop was
\* entered, cleanup() is invoked exactly once by the time run() is over,
\* whether the loop was left by the stop header or by an exception.
C1_CleanupExactlyOnce ==
  LoopEntered =>
    /\ calls["cleanup"] <= 1
    /\ pc \in EndPcs => calls["cleanup"] = 1

\* C2 (as claimed): once a poll has exposed the stop header, no update,
\* step, publish, sleep or poll is made any more, and cleanup() is invoked
\* exactly once in that run.
C2_StopThenCleanupOnce ==
  stop_seen =>
    /\ NoLoopCallSinceExit
    /\ calls["cleanup"] <= 1
    /\ pc \in EndPcs => calls["cleanup"] = 1

\* C3 (as claimed): a stop header waiting on the command channel of a
\* running worker leads to run() returning after cleanup(), unless a
\* lifecycle hook raises.
StopRequested ==
  /\ \E i \in 1..Len(inp) : inp[i].header = STOP_PROCESS
  /\ pc \in LoopPcs
  /\ calls["poll"] < MaxIter
C3_StopLeadsToTerminated == StopRequested ~> (pc = "done" \/ HookRaised)

\* C4 (as claimed): with no stop header among the messages sent, once every
\* message has been polled and dispatched, update() has been invoked exactly
\* once per message, in arrival order, with that message's header and
\* payload.
C4_OneUpdatePerMessage ==
  (~SentinelSent /\ inp = <<>> /\ pc \in AfterUpdatePcs) => updates = sent

\* C4 (amended): with no stop header among the messages sent, update() is
\* invoked exactly once for each poll that returned true: the calls carry
\* messages that were sent, unchanged, in arrival order and none twice, and
\* the message a poll exposed is passed to update() before the loop goes on.
C4_OneUpdatePerPoll ==
  ~SentinelSent =>
    /\ Len(updates) = calls["update"]
    /\ \A i \in 1..Len(updates) :
         /\ updates[i].id \in 1..Len(sent)
         /\ updates[i] = sent[updates[i].id]
    /\ \A i, j \in 1..Len(updates) : i < j => updates[i].id < updates[j].id
    /\ pc = "update" => latest_id > LastUpdateId
    /\ pc \in AfterUpdatePcs => latest_id = LastUpdateId

\* C4 witness: three messages and no stop header; a poll took two of them at
\* once, so update() was invoked twice only.
C4_Witness ==
  /\ ~SentinelSent
  /\ Len(sent) = 3
  /\ inp = <<>>
  /\ pc = "step"
  /\ Len(updates) = 2

\* C5 (as claimed): when a poll took two or more messages off the queue, it
\* is followed by one update() call carrying the last of them.
C5_BatchAlwaysUpdates ==
  (drained >= 2 /\ failed = None) =>
    \/ pc = "update"
    \/ updates # <<>> /\ updates[Len(updates)] = sent[Consumed]

\* C5 (amended): latest-wins.  The message a poll hands to update() is the
\* newest message the polls have consumed; while the loop runs, the last
\* update() call carries that message; earlier messages of the batch are
\* never delivered later (arrival numbers of update() calls only grow); and
\* a batch whose last message is the stop header produces no update() call.
C5_LatestWins ==
  /\ pc = "update" =>
       /\ Consumed >= 1
       /\ UpdateArgs = sent[Consumed]
  /\ (pc \in AfterUpdatePcs /\ Consumed >= 1) =>
       /\ updates # <<>>
       /\ updates[Len(updates)] = sent[Consumed]
  /\ \A i, j \in 1..Len(updates) : i < j => updates[i].id < updates[j].id
  /\ (stop_seen /\ Exited) => LastUpdateId < latest_id

\* C5 witness: A then B were waiting at one poll; update() got B alone.
C5_Witness ==
  /\ drained = 2
  /\ sent[1].header = "A"
  /\ sent[2].header = "B"
  /\ pc = "step"
  /\ updates = <<sent[2]>>

\* C6 (as claimed): if init() raises, no poll, update, step or publish is
\* ever made and cleanup() is invoked exactly once by the time run() is over.
C6_InitFailureStillCleansUp ==
  failed = "init" =>
    /\ \A c \in LoopCalls : calls[c] = 0
    /\ calls["cleanup"] <= 1
    /\ pc \in EndPcs => calls["cleanup"] = 1

\* C7 (as claimed): after a call of the loop body raised, control is in the
\* handler or the finally block and never back in the loop, no call of the
\* loop is made after the failing one, and cleanup() runs exactly once.
C7_CrashContained ==
  LoopCrashed =>
    /\ pc \in {"except"} \cup FinallyPcs \cup EndPcs
    /\ Exited => NoLoopCallSinceExit
    /\ calls["cleanup"] <= 1
    /\ pc \in EndPcs => calls["cleanup"] = 1

\* C8: teardown order.  When the loop was left by the stop header or by a
\* crash, the finally block calls the task checker's cleanup(), then drops
\* the task checker, then drops the results publisher, then calls the
\* worker's cleanup(): each step is taken only after the ones before it.
C8_TeardownOrder ==
  /\ calls["cleanup"] >= 1 =>
       /\ calls["tc_cleanup"] = 1
       /\ task_checker = "deleted"
       /\ results_publisher = "deleted"
  /\ results_publisher = "deleted" => task_checker = "deleted"
  /\ task_checker = "deleted" => calls["tc_cleanup"] = 1
  /\ (stop_seen \/ LoopCrashed) =>
       /\ pc = "fin_tc" =>
            calls["tc_cleanup"] = 0 /\ task_checker = "live"
       /\ pc = "fin_tc_del" =>
            calls["tc_cleanup"] = 1 /\ task_checker = "live"
       /\ pc = "fin_rp" =>
            task_checker = "deleted" /\ results_publisher = "live"
       /\ pc = "fin_cleanup" =>
            results_publisher = "deleted" /\ calls["cleanup"] = 0

\* C8 witness: step() raised and the teardown ran to the end.
C8_Witness ==
  /\ failed = "step"
  /\ pc = "done"
  /\ calls["tc_cleanup"] = 1
  /\ calls["cleanup"] = 1

\* C9: no update() call ever carries the stop header.
C9_StopNeverReachesUpdate ==
  \A i \in 1..Len(updates) : updates[i].header # STOP_PROCESS

\* C9 witness: a message was dispatched to update(), a later poll exposed
\* the stop header, and the run ended.
C9_Witness ==
  /\ stop_seen
  /\ Len(updates) >= 1
  /\ pc = "done"

\* C10 (as claimed): no wait period, the traffic is one ordinary message
\* followed by the stop header, and nothing raised inside the try block;
\* then at the end of the run update() was called once, with that message,
\* step() and publish() ran at least once before the stop was seen,
\* cleanup() ran exactly once, and no call of the loop came after the stop.
C10_Scenario ==
  /\ loop_wait_period = None
  /\ Len(sent) = 2
  /\ sent[1].header # STOP_PROCESS
  /\ sent[2].header = STOP_PROCESS
  /\ failed = None
  /\ pc \in EndPcs
C10_ScenarioOutcome ==
  C10_Scenario =>
    /\ updates = <<sent[1]>>
    /\ exit_calls["step"] >= 1
    /\ exit_calls["publish"] >= 1
    /\ calls["cleanup"] = 1
    /\ NoLoopCallSinceExit

\* C11 (as claimed): once the IPC objects and the logger exist, every way
\* out of the finally block has invoked the worker's cleanup(), also the
\* one on which the task checker's own cleanup() raises.
C11_CleanupUnconditional ==
  (pc \in EndPcs /\ MPFLog) => calls["cleanup"] = 1

\* The calls of the iterations begun so far are in the order poll,
\* [update], step, publish, [sleep]: at each position of the loop the
\* counts of step() and publish() are those of the completed iterations
\* plus the part of the current one that lies before the position.
IterationOrder ==
  /\ pc \in {"poll", "sleep"} =>
       calls["step"] = calls["poll"] /\ calls["publish"] = calls["poll"]
  /\ pc \in {"update", "step"} =>
       /\ calls["step"] = calls["poll"] - 1
       /\ calls["publish"] = calls["poll"] - 1
  /\ pc = "publish" =>
       /\ calls["step"] = calls["poll"]
       /\ calls["publish"] = calls["poll"] - 1
  /\ pc = "update" => drained >= 1 /\ header # STOP_PROCESS
  /\ calls["update"] <= calls["poll"]

\* C12 (as claimed): the calls of an iteration are in the fixed order, and
\* step() is invoked in every iteration that does not observe the stop
\* header: once the loop is over, every iteration begun, but the one that
\* saw the stop header, has invoked step().
C12_StepInEveryIteration ==
  /\ IterationOrder
  /\ (LoopEntered /\ (pc = "except" \/ Exited)) =>
       calls["step"] = calls["poll"] - (IF stop_seen THEN 1 ELSE 0)

\* C12 (amended): the calls of an iteration are in the fixed order;
\* update() is invoked at most once per iteration and only after a poll
\* that returned true with another header than the stop header; step() is
\* invoked in every iteration whose poll, and update() if there was one,
\* returned without the stop header; publish() is invoked once after each
\* step() that returned, before the next poll.
C12_FixedOrder ==
  /\ IterationOrder
  /\ (LoopEntered /\ (pc = "except" \/ Exited)) =>
       /\ (stop_seen \/ failed \in {"poll", "update"}) =>
            /\ calls["step"] = calls["poll"] - 1
            /\ calls["publish"] = calls["poll"] - 1
       /\ failed = "step" =>
            /\ calls["step"] = calls["poll"]
            /\ calls["publish"] = calls["poll"] - 1
       /\ failed \in {"publish", "sleep"} =>
            /\ calls["step"] = calls["poll"]
            /\ calls["publish"] = calls["poll"]

\* C12 witness: two iterations, one that dispatched a message and one that
\* did not, the second about to sleep.
C12_Witness ==
  /\ pc = "sleep"
  /\ calls["poll"] = 2
  /\ calls["update"] = 1
  /\ calls["publish"] = 2

\* C13: the loop is left only by the stop header or by an exception.  After
\* the loop was entered, control is outside it only if a poll exposed the
\* stop header or a call of the loop raised; with neither, control is in
\* the loop, cleanup() has not been invoked, and the loop has a next step
\* (up to the number of iterations explored).
C13_OnlyTwoExits ==
  LoopEntered =>
    /\ (pc = "except" \/ Exited) => (stop_seen \/ LoopCrashed)
    /\ (~stop_seen /\ failed = None) =>
         /\ pc \in LoopPcs
         /\ calls["cleanup"] = 0
         /\ (ENABLED Run) \/ calls["poll"] = MaxIter

\* C13 witness: two full iterations without stop header or failure, one of
\* them with a message, and the loop still running.
C13_Witness ==
  /\ LoopEntered
  /\ ~stop_seen
  /\ failed = None
  /\ pc = "poll"
  /\ calls["poll"] = 2
  /\ calls["update"] = 1

\* C14: a failure of the task checker's cleanup() or of the worker's
\* cleanup() leaves run() as an exception: the handler of line 75 does not
\* see it, so no critical event is logged for it (the only critical event
\* is that of a failure inside the try block), and run() does not return.
C14_TeardownFailurePropagates ==
  /\ teardown_failed \in {"tc_cleanup", "cleanup"} =>
       /\ pc = "raised"
       /\ calls["critical"] = (IF failed # None THEN 1 ELSE 0)
  /\ pc = "done" => teardown_failed = None

\* C14 witness: the worker left cleanup() at the base implementation; the
\* stop header was polled, cleanup() raised, nothing was logged as a crash.
C14_Witness ==
  /\ "cleanup" \in missing
  /\ stop_seen
  /\ teardown_failed = "cleanup"
  /\ pc = "raised"
  /\ calls["critical"] = 0

\* C15 (as claimed): when the construction of an IPC object fails, the
\* finally block still runs to its end: it cleans the task checker if that
\* one was constructed, skips it if not, invokes the worker's cleanup() and
\* run() returns.
C15_TeardownAfterFailedConstruction ==
  (failed \in {"ctor_tc", "ctor_rp"} /\ pc \in EndPcs) =>
    /\ pc = "done"
    /\ calls["tc_cleanup"] = (IF task_checker # None THEN 1 ELSE 0)
    /\ calls["cleanup"] = 1

\* C16: a hook left at the base implementation makes the run fail at its
\* first invocation and not before: it is invoked at most once, that
\* invocation is the failing call, control then leaves the loop for the
\* handler and the finally block, and as long as it has not been invoked
\* it is not the cause of a failure.
C16_MissingHookFailsAtFirstCall ==
  /\ \A h \in missing \ {"cleanup"} :
       /\ calls[h] <= 1
       /\ calls[h] = 1 =>
            /\ failed = h
            /\ pc \in {"except"} \cup FinallyPcs \cup EndPcs
       /\ calls[h] = 0 => failed # h
  /\ "cleanup" \in missing =>
       /\ calls["cleanup"] <= 1
       /\ calls["cleanup"] = 1 =>
            teardown_failed = "cleanup" /\ pc = "raised"
       /\ calls["cleanup"] = 0 => teardown_failed # "cleanup"

\* C16 witness: a worker without update() ran an iteration of poll, step
\* and publish, then polled a message, failed in update() and was torn down.
C16_Witness ==
  /\ missing = {"update"}
  /\ calls["publish"] >= 1
  /\ failed = "update"
  /\ calls["step"] = calls["poll"] - 1
  /\ pc = "done"

\* Number of sleeps that ran to their end.
Slept == calls["sleep"] - (IF failed = "sleep" THEN 1 ELSE 0)

\* C17: with a wait period (0 included) every completed iteration ends
\* with one sleep, after publish() and before the next poll; without one
\* no sleep is ever made; the iteration that sees the stop header or in
\* which a call raises completes no sleep.
C17_SleepEveryIteration ==
  /\ loop_wait_period = None => calls["sleep"] = 0
  /\ loop_wait_period # None =>
       /\ pc = "poll" =>
            /\ calls["sleep"] = calls["poll"]
            /\ calls["publish"] = calls["poll"]
       /\ pc \in {"update", "step", "publish"} =>
            calls["sleep"] = calls["poll"] - 1
       /\ pc = "sleep" =>
            /\ calls["sleep"] = calls["poll"] - 1
            /\ calls["publish"] = calls["poll"]
       /\ (LoopEntered /\ (pc = "except" \/ Exited)) =>
            Slept = calls["poll"] - 1

\* C17 witness: a period of 0; two iterations, each ended by a sleep.
C17_Witness ==
  /\ loop_wait_period = "0"
  /\ pc = "poll"
  /\ calls["poll"] = 2
  /\ calls["sleep"] = 2
  /\ calls["update"] = 1

\* No hook, poll or sleep has run since cleanup() was invoked, and none
\* will: cleanup() is invoked once, at the very end of run().
NothingAfterCleanup ==
  calls["cleanup"] >= 1 =>
    /\ calls["cleanup"] = 1
    /\ pc \in EndPcs
    /\ NoLoopCallSinceExit
    /\ ~ENABLED Run

\* init() precedes every call of the loop.
InitBeforeLoop ==
  (pc \in LoopPcs \/ \E c \in LoopCalls : calls[c] > 0) =>
    calls["init"] = 1 /\ failed # "init"

\* C18 (as claimed): init() is invoked exactly once per run, before any
\* call of the loop, and nothing fires after cleanup().
C18_InitExactlyOnce ==
  /\ calls["init"] <= 1
  /\ pc \in EndPcs => calls["init"] = 1
  /\ InitBeforeLoop
  /\ NothingAfterCleanup

\* C18 (amended): init() is invoked at most once per run, and exactly once
\* when the IPC objects and the logger were constructed (never when their
\* construction failed); it precedes every call of the loop; and nothing
\* fires after cleanup().
C18_LifecycleBracket ==
  /\ calls["init"] <= 1
  /\ (pc \notin {"start", "init"} /\ MPFLog) => calls["init"] = 1
  /\ ~MPFLog => calls["init"] = 0
  /\ InitBeforeLoop
  /\ NothingAfterCleanup

\* C18 witness: a whole run, from init() through an iteration to cleanup().
C18_Witness ==
  /\ pc = "done"
  /\ calls["init"] = 1
  /\ calls["publish"] >= 1
  /\ calls["cleanup"] = 1

\* C19: the critical event.  A failure of init() or of a call of the loop
\* is logged once, by the handler, after the failing call and before the
\* first step of the teardown; a run without such a failure, ended by the
\* stop header, logs none.
C19_CriticalOnceOnCrash ==
  /\ calls["critical"] <= 1
  /\ failed \in LoopCalls \cup {"init"} =>
       /\ pc = "except" =>
            calls["critical"] = 0 /\ calls["tc_cleanup"] = 0
       /\ Exited => calls["critical"] = 1
       /\ pc = "fin_tc" =>
            /\ calls["tc_cleanup"] = 0
            /\ calls["cleanup"] = 0
            /\ task_checker = "live"
  /\ failed = None => calls["critical"] = 0

\* C19 witness: step() raised in the third iteration; one critical event.
C19_Witness ==
  /\ failed = "step"
  /\ calls["poll"] = 3
  /\ calls["critical"] = 1
  /\ pc = "done"

\* C20: the counts of the hooks.  publish() never runs ahead of step() and
\* lags it by one at most; update() was not invoked more often than polls
\* returned; and a run ended by the stop header without a failure made one
\* step() and one publish() in every iteration but the last.
C20_HookCounts ==
  /\ calls["publish"] <= calls["step"]
  /\ calls["step"] <= calls["publish"] + 1
  /\ calls["update"] <=
       calls["poll"] - (IF failed = "poll" THEN 1 ELSE 0)
  /\ (stop_seen /\ failed = None /\ pc \in EndPcs) =>
       /\ calls["step"] = calls["poll"] - 1
       /\ calls["publish"] = calls["poll"] - 1

\* C20 witness: the stop header was seen by the third poll of a run that
\* returned.
C20_Witness ==
  /\ stop_seen
  /\ failed = None
  /\ pc = "done"
  /\ calls["poll"] = 3
  /\ calls["step"] = 2

TypeOK ==
  /\ pc \in {"start", "init", "except"} \cup LoopPcs \cup FinallyPcs \cup EndPcs
  /\ task_checker \in {None, "live", "deleted"}
  /\ results_publisher \in {None, "live", "deleted"}
  /\ MPFLog \in BOOLEAN
  /\ loop_wait_period \in Periods
  /\ missing \subseteq Hooks
  /\ Len(sent) <= MaxMsgs
  /\ Len(inp) <= Len(sent)
  /\ calls \in [CallNames -> 0..(MaxIter + 1)]
  /\ stop_seen \in BOOLEAN
  /\ drained \in 0..MaxMsgs

====
